---- MODULE Spec2Model ----
(***************************************************************************)
(* Sales analytics and forecast service (src/app.py): the three request    *)
(* handlers /dashboard, /forecast and /download-pdf, the two artifact      *)
(* files they share under REPORT_DIR, and pyplot's process-wide figure     *)
(* stack, handled by the worker threads of the server.                     *)
(*                                                                         *)
(* Numbers.  Currency amounts are integers counted in a fixed sub-unit;    *)
(* FracUnits of them make one step of the finest decimal place that        *)
(* DataFrame.to_json keeps.  Sums, the least-squares fit and the           *)
(* predictions are exact (rationals in lowest terms): the rounding of      *)
(* binary floating point itself is not modelled.                           *)
(* Time.  A timestamp is an integer count of ticks, TicksPerDay to a       *)
(* calendar day; a calendar date is the day number.                        *)
(***************************************************************************)
EXTENDS Integers, Sequences, FiniteSets, TLC

\* ------------------------------------------------------------------ bounds
MaxRows == 3
MaxAggRows == 2
FracUnits == 2
TicksPerDay == 2
NumThreads == 2
MaxRequests == 3

\* ------------------------------------------------------------ configuration
REQUIRED_COLUMNS ==
    {"date", "month", "area", "product",
     "sale_count", "sale_amount", "gst", "net_value", "profit"}

future_days == 30

\* ----------------------------------------------------------------- helpers
Range(s) == {s[i] : i \in DOMAIN s}

RECURSIVE Gcd(_, _)
Gcd(a, b) == IF b = 0 THEN a ELSE Gcd(b, a % b)

Abs(n) == IF n < 0 THEN -n ELSE n

\* A real number as a fraction in lowest terms with a positive denominator,
\* so that two equal numbers are the same record.
Rat(n, d) ==
    LET s == IF d < 0 THEN -1 ELSE 1
        g == Gcd(Abs(n), Abs(d))
    IN  [num |-> (s * n) \div g, den |-> (s * d) \div g]

RatGeq(p, q) == p.num * q.den >= q.num * p.den

\* Lexicographic order of the category labels that occur in the inputs.
LabelOrder == <<"Feb", "Ink", "Jan", "North", "Pen", "South">>

LabelRank(l) == CHOOSE i \in DOMAIN LabelOrder : LabelOrder[i] = l

\* Order of the values of one column: timestamps by value, labels by spelling.
KeyLess(col, a, b) ==
    IF col = "date" THEN a < b ELSE LabelRank(a) < LabelRank(b)

\* --------------------------------------------------------------- DataFrame
\* A DataFrame: its column names and its rows, each row a function from the
\* column names to the cell values.
DataFrame(cols, rows) == [columns |-> cols, rows |-> rows]

\* Series.sum() of one column.
RECURSIVE ColumnSum(_, _)
ColumnSum(rows, col) ==
    IF rows = <<>> THEN 0
    ELSE rows[1][col] + ColumnSum(Tail(rows), col)

\* The distinct values of a set in ascending order.
RECURSIVE SortedKeys(_, _)
SortedKeys(keys, col) ==
    IF keys = {} THEN <<>>
    ELSE LET m == CHOOSE k \in keys : \A j \in keys : j = k \/ KeyLess(col, k, j)
         IN  <<m>> \o SortedKeys(keys \ {m}, col)

\* Faulty variant of SelectRows: only the first row of a group is kept.
SelectFirstRow(rows, col, k) ==
    LET hits == SelectSeq(rows, LAMBDA r : r[col] = k)
    IN  IF hits = <<>> THEN hits ELSE <<hits[1]>>

\* The rows of one group.
SelectRows(rows, col, k) == SelectSeq(rows, LAMBDA r : r[col] = k)

\* df.groupby(col, as_index=False)["sale_amount"].sum(): one record per
\* distinct value of col, in ascending order of that value.
GroupBySum(df, col) ==
    LET keys == SortedKeys({df.rows[i][col] : i \in DOMAIN df.rows}, col)
    IN  [i \in DOMAIN keys |->
            [key |-> keys[i],
             sale_amount |-> ColumnSum(SelectRows(df.rows, col, keys[i]), "sale_amount")]]

\* DataFrame.sort_values("date") on the grouped frame: a stable insertion sort.
RECURSIVE InsertByKey(_, _)
InsertByKey(sorted, r) ==
    IF sorted = <<>> THEN <<r>>
    ELSE IF r.key < sorted[1].key THEN <<r>> \o sorted
    ELSE <<sorted[1]>> \o InsertByKey(Tail(sorted), r)

RECURSIVE SortValues(_)
SortValues(recs) ==
    IF recs = <<>> THEN <<>>
    ELSE InsertByKey(SortValues(SubSeq(recs, 1, Len(recs) - 1)), recs[Len(recs)])

\* ------------------------------------------------------------ validate_data
\* Faulty variant of Missing: only one of the missing columns is reported.
MissingFirstOnly(df) ==
    LET missing == REQUIRED_COLUMNS \ df.columns
    IN  IF missing = {} THEN {} ELSE {CHOOSE c \in missing : TRUE}

\* missing = REQUIRED_COLUMNS - set(df.columns)
Missing(df) == REQUIRED_COLUMNS \ df.columns

\* validate_data: returns normally, or raises ValueError carrying `missing`.
validate_data(df) ==
    IF Missing(df) # {}
    THEN [kind |-> "ValueError", missing |-> Missing(df)]
    ELSE [kind |-> "ok"]

\* ------------------------------------------------------------------ summary
\* The summary dict, built the same way in dashboard and in forecast.
Summary(df) ==
    [total_sales  |-> ColumnSum(df.rows, "sale_amount"),
     total_profit |-> ColumnSum(df.rows, "profit"),
     total_units  |-> ColumnSum(df.rows, "sale_count"),
     total_gst    |-> ColumnSum(df.rows, "gst")]

\* ---------------------------------------------------------- JSON interchange
FloatColumns == {"sale_amount", "gst", "net_value", "profit"}

\* to_json writes a float with a fixed number of decimal places: the value is
\* rounded to the nearest step of the last place kept.
JsonFloat(v) == ((2 * v + FracUnits) \div (2 * FracUnits)) * FracUnits

\* date_format="iso": a timestamp as its calendar day and its time of day.
IsoFormat(ts) == [day |-> ts \div TicksPerDay, tick |-> ts % TicksPerDay]

\* pd.to_datetime of an ISO string.
to_datetime(iso) == iso.day * TicksPerDay + iso.tick

JsonCell(col, v) ==
    IF col = "date" THEN IsoFormat(v)
    ELSE IF col \in FloatColumns THEN JsonFloat(v)
    ELSE v

\* df.to_json(date_format="iso", orient="records"): the list of row objects.
\* The column names live in the row objects only.
to_json(df) ==
    [i \in DOMAIN df.rows |->
        [c \in df.columns |-> JsonCell(c, df.rows[i][c])]]

\* pd.read_json of a list of row objects; an empty list gives a frame with
\* no columns.
read_json(data) ==
    DataFrame(IF data = <<>> THEN {} ELSE DOMAIN data[1], data)

\* df["date"] = pd.to_datetime(df["date"])
ParseDates(df) ==
    DataFrame(df.columns,
              [i \in DOMAIN df.rows |->
                  [c \in df.columns |->
                      IF c = "date" THEN to_datetime(df.rows[i][c])
                      ELSE df.rows[i][c]]])

\* ------------------------------------------------------ time-series builder
\* Faulty variant of WithDayIndex: the numbering starts at 1.
WithDayIndexFromOne(recs) ==
    [i \in DOMAIN recs |->
        [date |-> recs[i].key, sale_amount |-> recs[i].sale_amount, day |-> i]]

\* daily_sales["day"] = np.arange(len(daily_sales))
WithDayIndex(recs) ==
    [i \in DOMAIN recs |->
        [date |-> recs[i].key, sale_amount |-> recs[i].sale_amount, day |-> i - 1]]

\* Lines 121-123: group by date, sort by date, number the rows.
DailySales(df) == WithDayIndex(SortValues(GroupBySum(df, "date")))

\* --------------------------------------------------------------- forecaster
\* np.sum of a vector.
RECURSIVE SeqSum(_)
SeqSum(s) == IF s = <<>> THEN 0 ELSE s[1] + SeqSum(Tail(s))

\* Faulty variant of Fit: a regression without intercept.
FitThroughOrigin(daily) ==
    LET sxx == SeqSum([i \in DOMAIN daily |-> daily[i].day * daily[i].day])
        sxy == SeqSum([i \in DOMAIN daily |-> daily[i].day * daily[i].sale_amount])
    IN  [coef |-> IF sxx = 0 THEN Rat(0, 1) ELSE Rat(sxy, sxx),
         intercept |-> Rat(0, 1)]

\* LinearRegression().fit(daily_sales[["day"]], daily_sales["sale_amount"]):
\* ordinary least squares with an intercept.  When the day column does not
\* vary (a single row) the minimum-norm solution has coefficient 0.
Fit(daily) ==
    LET n   == Len(daily)
        sx  == SeqSum([i \in DOMAIN daily |-> daily[i].day])
        sy  == SeqSum([i \in DOMAIN daily |-> daily[i].sale_amount])
        sxx == SeqSum([i \in DOMAIN daily |-> daily[i].day * daily[i].day])
        sxy == SeqSum([i \in DOMAIN daily |-> daily[i].day * daily[i].sale_amount])
        q   == n * sxx - sx * sx
        p   == n * sxy - sx * sy
    IN  IF q = 0
        THEN [coef |-> Rat(0, 1), intercept |-> Rat(sy, n)]
        ELSE [coef |-> Rat(p, q), intercept |-> Rat(sy * q - p * sx, n * q)]

\* model.predict at one day index.
Predict(model, x) ==
    Rat(model.coef.num * x * model.intercept.den
            + model.intercept.num * model.coef.den,
        model.coef.den * model.intercept.den)

\* Faulty variant of FutureX: the day indices start one too late.
FutureXShifted(daily) == [i \in 1..future_days |-> Len(daily) + i]

\* np.arange(len(daily_sales), len(daily_sales) + future_days)
FutureX(daily) == [i \in 1..future_days |-> Len(daily) + i - 1]

ForecastValues(daily) ==
    LET model == Fit(daily)
        xs    == FutureX(daily)
    IN  [i \in 1..future_days |-> Predict(model, xs[i])]

\* pd.date_range(last + pd.Timedelta(days=1), periods=future_days)
ForecastDates(daily) ==
    [i \in 1..future_days |->
        daily[Len(daily)].date + TicksPerDay + (i - 1) * TicksPerDay]

\* strftime("%Y-%m-%d"): the calendar day, the time of day dropped.
Strftime(ts) == ts \div TicksPerDay

\* Faulty variant of Colors: each value is compared with the one after it.
ColorsLookAhead(values) ==
    [i \in DOMAIN values |->
        IF i = Len(values) \/ RatGeq(values[i + 1], values[i])
        THEN "green" ELSE "red"]

\* Lines 139-142: green for the first value and for a value not below the
\* one before it, red otherwise.
Colors(values) ==
    [i \in DOMAIN values |->
        IF i = 1 \/ RatGeq(values[i], values[i - 1]) THEN "green" ELSE "red"]

\* list(zip(forecast_dates.strftime("%Y-%m-%d"), [float(v) ...]))
ForecastData(dates, values) ==
    [i \in DOMAIN dates |-> <<Strftime(dates[i]), values[i]>>]

\* ----------------------------------------------------------- chart renderer
\* What one run draws on the current figure (lines 146-156): the historical
\* line, one line per pair of neighbouring forecast points, and the markers.
Artists(daily, dates, values, colors) ==
    [historical |-> [i \in DOMAIN daily |-> <<daily[i].date, daily[i].sale_amount>>],
     segments   |-> [i \in 1..(Len(values) - 1) |->
                        [x |-> <<dates[i], dates[i + 1]>>,
                         y |-> <<values[i], values[i + 1]>>,
                         color |-> colors[i]]],
     markers    |-> [i \in DOMAIN values |->
                        [x |-> dates[i], y |-> values[i], color |-> colors[i]]]]

\* ------------------------------------------------------------------- inputs
Threads == 1..NumThreads

Stamp(day, tick) == day * TicksPerDay + tick

Row(date, month, area, product, count, amount, gst, profit) ==
    [date |-> date, month |-> month, area |-> area, product |-> product,
     sale_count |-> count, sale_amount |-> amount, gst |-> gst,
     net_value |-> amount - gst, profit |-> profit]

BoundedSeq(S, n) == UNION {[1..k -> S] : k \in 0..n}

AllColumns == REQUIRED_COLUMNS \cup {"remarks"}

WithColumns(cols, rows) ==
    DataFrame(cols,
              [i \in DOMAIN rows |->
                  [c \in cols |-> IF c = "remarks" THEN "Pen" ELSE rows[i][c]]])

\* Two sales on one calendar day at different times, and a gap (no day 3).
SeriesStamps == {Stamp(1, 0), Stamp(1, 1), Stamp(2, 0), Stamp(4, 0)}

SeriesRows ==
    {Row(d, "Jan", "North", "Pen", 1, a, 0, 1) :
        d \in SeriesStamps, a \in {0, 2 * FracUnits}}

SeriesTables ==
    {DataFrame(REQUIRED_COLUMNS, rows) : rows \in BoundedSeq(SeriesRows, MaxRows)}

\* Amounts on and off the grid of values that to_json keeps.
AggRows ==
    {Row(Stamp(1, 0), rec[1], rec[2], rec[3], 1, rec[4], 0, FracUnits) :
        rec \in {"Jan", "Feb"} \X {"North", "South"} \X {"Pen", "Ink"}
                \X {FracUnits, FracUnits + 1}}

AggTables ==
    {DataFrame(REQUIRED_COLUMNS, rows) : rows \in BoundedSeq(AggRows, MaxAggRows)}

ValTables ==
    {WithColumns(cols, <<Row(Stamp(1, 0), "Jan", "North", "Pen", 1, FracUnits, 0, 1)>>) :
        cols \in SUBSET AllColumns}

RisingRows ==
    <<Row(Stamp(1, 0), "Jan", "North", "Pen", 1, FracUnits, 0, 1),
      Row(Stamp(3, 0), "Feb", "South", "Ink", 2, 2 * FracUnits, FracUnits, 1)>>

FallingRows ==
    <<Row(Stamp(2, 1), "Feb", "South", "Ink", 1, 2 * FracUnits, 0, 1),
      Row(Stamp(2, 0), "Feb", "South", "Pen", 1, FracUnits + 1, 0, -1),
      Row(Stamp(5, 0), "Feb", "North", "Pen", 1, 0, 0, 1)>>

\* Two complete tables with different data ...
TwoFiles ==
    {DataFrame(REQUIRED_COLUMNS, RisingRows),
     DataFrame(REQUIRED_COLUMNS, FallingRows)}

\* ... and one more without the gst column.
DemoFiles == TwoFiles \cup {WithColumns(REQUIRED_COLUMNS \ {"gst"}, RisingRows)}

\* -------------------------------------------------------------------- state
VARIABLES
    files,        \* the tables the users hold (the uploads they may send)
    workers,      \* the server threads that take requests
    pc,           \* per worker: where its handler stands ("idle": none running)
    req,          \* per worker: the request it is handling or handled last
    loc,          \* per worker: the local variables of the running handler
    resp,         \* per worker: the response it sent last (the page shown)
    figs,         \* pyplot's open figures, the current one last
    chart_file,   \* static/report/forecast_chart.png
    pdf_file,     \* static/report/sales_analysis_report.pdf
    last_report,  \* history: the document of the latest completed forecast run
    prev_report,  \* history: the latest document on file before it that differed
    quota         \* the requests the clients have yet to send (Unlimited: no end)

vars == <<files, workers, pc, req, loc, resp, figs, chart_file, pdf_file, last_report,
          prev_report, quota>>

None == [kind |-> "none"]
Absent == [state |-> "absent"]
Partial == [state |-> "partial"]
Complete(content) == [state |-> "complete", content |-> content]

Raise(error, line) == [kind |-> "error", error |-> error, line |-> line]

Unlimited == [bounded |-> FALSE, left |-> 0]
AtMost(n) == [bounded |-> TRUE, left |-> n]

\* A worker takes the next request a client sends.
Accept ==
    /\ quota.bounded => quota.left > 0
    /\ quota' = IF quota.bounded THEN [quota EXCEPT !.left = @ - 1] ELSE quota

InitWith(fs, ws, q) ==
    /\ files = fs
    /\ workers = ws
    /\ quota = q
    /\ pc = [t \in Threads |-> "idle"]
    /\ req = [t \in Threads |-> None]
    /\ loc = [t \in Threads |-> None]
    /\ resp = [t \in Threads |-> None]
    /\ figs = <<>>
    /\ chart_file = Absent
    /\ pdf_file = Absent
    /\ last_report = Absent
    /\ prev_report = Absent

\* ---------------------------------------------------------------- dashboard
DashboardResponse(df) ==
    [kind |-> "dashboard",
     summary |-> Summary(df),
     area_sales |-> GroupBySum(df, "area"),
     month_sales |-> GroupBySum(df, "month"),
     product_sales |-> GroupBySum(df, "product"),
     data |-> to_json(df)]

\* The whole handler: read the upload, validate, aggregate, render the page.
dashboard(df) ==
    LET v == validate_data(df)
    IN  IF v.kind = "ValueError"
        THEN [kind |-> "error", error |-> "ValueError", line |-> 30,
              missing |-> v.missing]
        ELSE DashboardResponse(df)

Dashboard(t) ==
    /\ t \in workers
    /\ pc[t] = "idle"
    /\ Accept
    /\ \E f \in files :
        /\ req' = [req EXCEPT ![t] = [kind |-> "dashboard", file |-> f]]
        /\ resp' = [resp EXCEPT ![t] = dashboard(f)]
    /\ UNCHANGED <<files, workers, pc, loc, figs, chart_file, pdf_file, last_report, prev_report>>

\* ----------------------------------------------------------------- forecast
\* The form data a client can post: the data of a dashboard page it has open,
\* or a payload of the same shape built from any table it holds.
Payloads ==
    {[kind |-> "forecast", data |-> resp[u].data, from_page |-> TRUE,
      shown |-> resp[u].summary] : u \in {w \in workers : resp[w].kind = "dashboard"}}
    \cup
    {[kind |-> "forecast", data |-> to_json(f), from_page |-> FALSE,
      shown |-> None] : f \in files}

\* Lines 118-142: parse, build the daily series, fit and extrapolate.
ForecastLocals(data) ==
    LET raw == read_json(data)
    IN  IF "date" \notin raw.columns THEN Raise("KeyError", 119)
        ELSE IF "sale_amount" \notin raw.columns THEN Raise("KeyError", 121)
        ELSE LET df    == ParseDates(raw)
                 daily == DailySales(df)
             IN  IF Len(daily) = 0 THEN Raise("ValueError", 127)
                 ELSE LET values == ForecastValues(daily)
                          dates  == ForecastDates(daily)
                      IN  [kind |-> "locals",
                           df |-> df,
                           daily_sales |-> daily,
                           model |-> Fit(daily),
                           forecast_values |-> values,
                           forecast_dates |-> dates,
                           colors |-> Colors(values)]

Finish(t, response) ==
    /\ resp' = [resp EXCEPT ![t] = response]
    /\ pc' = [pc EXCEPT ![t] = "idle"]
    /\ loc' = [loc EXCEPT ![t] = None]

\* Lines 118-145, up to plt.figure(), which opens a figure and makes it current.
ForecastStart(t) ==
    /\ t \in workers
    /\ pc[t] = "idle"
    /\ Accept
    /\ \E r \in Payloads :
        LET l == ForecastLocals(r.data)
        IN  /\ req' = [req EXCEPT ![t] = r]
            /\ IF l.kind = "error"
               THEN /\ Finish(t, l)
                    /\ figs' = figs
               ELSE /\ loc' = [loc EXCEPT ![t] = l]
                    /\ pc' = [pc EXCEPT ![t] = "plot"]
                    /\ resp' = [resp EXCEPT ![t] = None]
                    /\ figs' = Append(figs, <<>>)
    /\ UNCHANGED <<files, workers, chart_file, pdf_file, last_report, prev_report>>

\* pyplot's current figure, opened on demand when none is open.
WithCurrent(fs) == IF fs = <<>> THEN << <<>> >> ELSE fs

\* plt.plot / plt.scatter draw on the current figure.
DrawOnCurrent(fs, artists) ==
    LET g == WithCurrent(fs)
    IN  [g EXCEPT ![Len(g)] = Append(@, artists)]

\* Lines 146-161.
Plot(t) ==
    /\ t \in workers
    /\ pc[t] = "plot"
    /\ figs' = DrawOnCurrent(figs,
                   Artists(loc[t].daily_sales, loc[t].forecast_dates,
                           loc[t].forecast_values, loc[t].colors))
    /\ pc' = [pc EXCEPT ![t] = "savefig"]
    /\ UNCHANGED <<quota, files, workers, req, loc, resp, chart_file, pdf_file, last_report, prev_report>>

\* Lines 163-165, first half: plt.savefig renders the current figure and
\* opens the chart file for writing, which empties it.
SavefigOpen(t) ==
    /\ t \in workers
    /\ pc[t] = "savefig"
    /\ figs' = WithCurrent(figs)
    /\ loc' = [loc EXCEPT ![t] =
                  [f \in DOMAIN @ \cup {"rendered"} |->
                      IF f = "rendered" THEN figs'[Len(figs')] ELSE @[f]]]
    /\ chart_file' = Partial
    /\ pc' = [pc EXCEPT ![t] = "savefig_write"]
    /\ UNCHANGED <<quota, files, workers, req, resp, pdf_file, last_report, prev_report>>

\* Line 165, second half: the image is written out and the file closed.
SavefigWrite(t) ==
    /\ t \in workers
    /\ pc[t] = "savefig_write"
    /\ chart_file' = Complete(loc[t].rendered)
    /\ pc' = [pc EXCEPT ![t] = "close"]
    /\ UNCHANGED <<quota, files, workers, req, loc, resp, figs, pdf_file, last_report, prev_report>>

\* Line 166: plt.close() closes the current figure.
Close(t) ==
    /\ t \in workers
    /\ pc[t] = "close"
    /\ figs' = IF figs = <<>> THEN figs ELSE SubSeq(figs, 1, Len(figs) - 1)
    /\ pc' = [pc EXCEPT ![t] = "read_chart"]
    /\ UNCHANGED <<quota, files, workers, req, loc, resp, chart_file, pdf_file, last_report, prev_report>>

\* Lines 168-169: the chart file is read back for the inline image.
ReadChart(t) ==
    /\ t \in workers
    /\ pc[t] = "read_chart"
    /\ IF chart_file.state = "absent"
       THEN Finish(t, Raise("FileNotFoundError", 168))
       ELSE /\ loc' = [loc EXCEPT ![t] =
                         [f \in DOMAIN @ \cup {"plot_url"} |->
                             IF f = "plot_url" THEN chart_file ELSE @[f]]]
            /\ pc' = [pc EXCEPT ![t] = "build"]
            /\ resp' = resp
    /\ UNCHANGED <<quota, files, workers, req, figs, chart_file, pdf_file, last_report, prev_report>>

\* ---------------------------------------------------------- report assembler
\* area_sales ... .to_dict("records")
ToRecords(grouped) ==
    [i \in DOMAIN grouped |->
        [area |-> grouped[i].key, sale_amount |-> grouped[i].sale_amount]]

\* The flowables of generate_pdf in their order: the summary table, the area
\* table, the forecast table and the chart image read from chart_path.
Document(summary, area_sales, forecast_data, image) ==
    [summary_table |->
        <<<<"Total Sales", summary.total_sales>>,
          <<"Total Profit", summary.total_profit>>,
          <<"Total Units Sold", summary.total_units>>,
          <<"Total GST", summary.total_gst>>>>,
     area_table |->
        [i \in DOMAIN area_sales |->
            <<area_sales[i].area, area_sales[i].sale_amount>>],
     forecast_table |-> forecast_data,
     chart |-> image]

\* The first of the columns the arguments of generate_pdf read (lines
\* 178-183, in that order) that the frame lacks, with its line.
ArgumentError(df) ==
    IF "profit" \notin df.columns THEN Raise("KeyError", 179)
    ELSE IF "sale_count" \notin df.columns THEN Raise("KeyError", 180)
    ELSE IF "gst" \notin df.columns THEN Raise("KeyError", 181)
    ELSE IF "area" \notin df.columns THEN Raise("KeyError", 183)
    ELSE None

\* Lines 171-186 and 32-81 up to the layout: the arguments are computed, the
\* flowables built, and doc.build reads the chart image from chart_path.  A
\* chart file that is still being written does not load.
Build(t) ==
    /\ t \in workers
    /\ pc[t] = "build"
    /\ LET df   == loc[t].df
           err  == ArgumentError(df)
           data == ForecastData(loc[t].forecast_dates, loc[t].forecast_values)
       IN  IF err.kind = "error" THEN Finish(t, err)
           ELSE IF chart_file.state # "complete" THEN Finish(t, Raise("OSError", 81))
           ELSE /\ loc' = [loc EXCEPT ![t] =
                             [f \in DOMAIN @ \cup {"forecast_data", "doc"} |->
                                 IF f = "forecast_data" THEN data
                                 ELSE IF f = "doc"
                                 THEN Document(Summary(df),
                                               ToRecords(GroupBySum(df, "area")),
                                               data, chart_file.content)
                                 ELSE @[f]]]
                /\ pc' = [pc EXCEPT ![t] = "pdf_open"]
                /\ resp' = resp
    /\ UNCHANGED <<quota, files, workers, req, figs, chart_file, pdf_file, last_report, prev_report>>

\* doc.build, line 81: the document file is opened for writing (emptied) ...
PdfOpen(t) ==
    /\ t \in workers
    /\ pc[t] = "pdf_open"
    /\ pdf_file' = Partial
    /\ pc' = [pc EXCEPT ![t] = "pdf_write"]
    /\ UNCHANGED <<quota, files, workers, req, loc, resp, figs, chart_file, last_report, prev_report>>

\* Faulty variant of WriteReport: a document already on file is kept.
KeepOldReport(doc) ==
    IF last_report.state = "complete" THEN last_report ELSE Complete(doc)

\* ... and written: the file now holds the document of this run.
WriteReport(doc) == Complete(doc)

\* Lines 81-82 and 188-193: the document is written and the page returned.
PdfWrite(t) ==
    /\ t \in workers
    /\ pc[t] = "pdf_write"
    /\ pdf_file' = WriteReport(loc[t].doc)
    /\ last_report' = Complete(loc[t].doc)
    /\ prev_report' = IF last_report = Complete(loc[t].doc) THEN prev_report
                      ELSE last_report
    /\ Finish(t, [kind |-> "forecast",
                  plot_url |-> loc[t].plot_url,
                  forecast_data |-> loc[t].forecast_data,
                  pdf_available |-> TRUE])
    /\ UNCHANGED <<quota, files, workers, req, figs, chart_file>>

\* ------------------------------------------------------------- download_pdf
\* send_from_directory: the document file as it is now, or NotFound.
Download(t) ==
    /\ t \in workers
    /\ pc[t] = "idle"
    /\ Accept
    /\ req' = [req EXCEPT ![t] = [kind |-> "download"]]
    /\ resp' = [resp EXCEPT ![t] =
                   IF pdf_file.state = "absent" THEN Raise("NotFound", 197)
                   ELSE [kind |-> "file", body |-> pdf_file]]
    /\ UNCHANGED <<files, workers, pc, loc, figs, chart_file, pdf_file, last_report, prev_report>>

\* ------------------------------------------------------------ specifications
Next ==
    \E t \in Threads :
        \/ Dashboard(t)
        \/ ForecastStart(t)
        \/ Plot(t)
        \/ SavefigOpen(t)
        \/ SavefigWrite(t)
        \/ Close(t)
        \/ ReadChart(t)
        \/ Build(t)
        \/ PdfOpen(t)
        \/ PdfWrite(t)
        \/ Download(t)

\* Requests that overlap: every worker thread takes requests.
Init == InitWith(TwoFiles, Threads, AtMost(MaxRequests))
Spec == Init /\ [][Next]_vars

\* Requests one at a time.
SeqInit == InitWith(DemoFiles, {1}, Unlimited)
SeqSpec == SeqInit /\ [][Next]_vars

\* One client at a time with one table, the table drawn from a bounded set.
ValInit == \E f \in ValTables : InitWith({f}, {1}, Unlimited)
ValSpec == ValInit /\ [][Next]_vars

SeriesInit == \E f \in SeriesTables : InitWith({f}, {1}, Unlimited)
SeriesSpec == SeriesInit /\ [][Next]_vars

AggInit == \E f \in AggTables : InitWith({f}, {1}, Unlimited)
AggSpec == AggInit /\ [][Next]_vars

\* ---------------------------------------------------------------- properties
\* The frame a request carries: the uploaded table, or the posted form data.
RequestColumns(r) ==
    IF r.kind = "dashboard" THEN r.file.columns ELSE read_json(r.data).columns

AbsentColumns(cols) == {c \in REQUIRED_COLUMNS : c \notin cols}

\* The rows of the posted form data with their dates parsed.
RequestRows(r) ==
    [i \in DOMAIN r.data |->
        [c \in DOMAIN r.data[i] |->
            IF c = "date" THEN to_datetime(r.data[i][c]) ELSE r.data[i][c]]]

\* The sum of sale_amount over the rows whose column col holds k.
RECURSIVE AmountWhere(_, _, _)
AmountWhere(rows, col, k) ==
    IF rows = <<>> THEN 0
    ELSE (IF rows[Len(rows)][col] = k THEN rows[Len(rows)].sale_amount ELSE 0)
         + AmountWhere(SubSeq(rows, 1, Len(rows) - 1), col, k)

ColumnValues(rows, col) == {rows[i][col] : i \in DOMAIN rows}

\* C1: validate_data succeeds exactly when the table has all nine required
\* columns, and otherwise fails with an error that carries exactly the set of
\* all required columns the table lacks.
C1_ValidateReportsAllMissing ==
    \A t \in workers :
        req[t].kind = "dashboard" =>
            LET absent == AbsentColumns(req[t].file.columns)
            IN  IF absent = {}
                THEN resp[t].kind = "dashboard"
                ELSE /\ resp[t].kind = "error"
                     /\ resp[t].error = "ValueError"
                     /\ resp[t].missing = absent

\* C1 witness: an upload lacking several required columns (and carrying an
\* extra one) has been rejected.
C1_Witness ==
    \E t \in workers :
        /\ req[t].kind = "dashboard"
        /\ resp[t].kind = "error"
        /\ Cardinality(AbsentColumns(req[t].file.columns)) >= 2
        /\ "remarks" \in req[t].file.columns

\* C2: in a dashboard run and in a forecast run alike, a dataset that lacks
\* a required column is rejected at the first stage: the run has ended with
\* an error raised by the validator (line 30) or while the date column is
\* parsed and grouped (lines 119 and 121), before any aggregation, fit or artifact write.
C2_RejectedAtFirstStage ==
    \A t \in workers :
        (/\ req[t].kind \in {"dashboard", "forecast"}
         /\ AbsentColumns(RequestColumns(req[t])) # {})
        => /\ pc[t] = "idle"
           /\ resp[t].kind = "error"
           /\ resp[t].line \in {30, 119, 121}

\* The document a forecast run on the request r produces when it runs alone.
OwnChart(r) ==
    LET l == ForecastLocals(r.data)
    IN  <<Artists(l.daily_sales, l.forecast_dates, l.forecast_values, l.colors)>>

\* C3: with forecast runs one at a time, a completed run leaves both files
\* complete and holding its own chart and its own document, and a download
\* returns the document of the latest completed run, not that of the run
\* before it.
C3_SequentialRunsOverwrite ==
    \A t \in workers :
        /\ resp[t].kind = "forecast" =>
            /\ chart_file = Complete(OwnChart(req[t]))
            /\ resp[t].plot_url = chart_file
            /\ pdf_file.state = "complete"
            /\ pdf_file.content.chart = OwnChart(req[t])
            /\ pdf_file.content.forecast_table = resp[t].forecast_data
            /\ pdf_file.content.summary_table[1][2]
                   = SeqSum([i \in DOMAIN req[t].data |-> req[t].data[i].sale_amount])
            /\ pdf_file = last_report
        /\ resp[t].kind = "file" =>
            /\ resp[t].body.state = "complete"
            /\ resp[t].body = last_report
            /\ pdf_file = last_report

\* C3 witness: a download after two completed runs on different datasets.
C3_Witness ==
    \E t \in workers :
        /\ resp[t].kind = "file"
        /\ prev_report.state = "complete"
        /\ prev_report # last_report
        /\ resp[t].body = last_report

\* C4: under every interleaving the chart returned inline to a run's caller
\* and the chart embedded in its document are the chart that run rendered,
\* and a download never returns a document that is being written.
C4_RunsIsolated ==
    \A t \in workers :
        /\ pc[t] \in {"pdf_open", "pdf_write"} =>
            /\ loc[t].plot_url = Complete(OwnChart(req[t]))
            /\ loc[t].doc.chart = OwnChart(req[t])
        /\ resp[t].kind = "forecast" =>
            resp[t].plot_url = Complete(OwnChart(req[t]))
        /\ resp[t].kind = "file" => resp[t].body.state = "complete"

\* The distinct dates of the rows, the j-th of them in ascending order, and
\* the latest.
HistoryDates(rows) == ColumnValues(rows, "date")

DateOfRank(rows, j) ==
    CHOOSE d \in HistoryDates(rows) :
        Cardinality({e \in HistoryDates(rows) : e < d}) = j - 1

LastDate(rows) ==
    CHOOSE d \in HistoryDates(rows) : \A e \in HistoryDates(rows) : e <= d

\* The line model is a least-squares line of the daily totals against their
\* rank: its residuals sum to zero and are orthogonal to the rank (the normal
\* equations, multiplied through by the denominators); a single point, which
\* leaves the slope open, gets slope zero.
LeastSquares(model, rows) ==
    LET n  == Cardinality(HistoryDates(rows))
        an == model.coef.num
        ad == model.coef.den
        bn == model.intercept.num
        bd == model.intercept.den
        residual == [j \in 1..n |->
            AmountWhere(rows, "date", DateOfRank(rows, j)) * ad * bd
                - an * (j - 1) * bd - bn * ad]
    IN  /\ SeqSum(residual) = 0
        /\ SeqSum([j \in 1..n |-> (j - 1) * residual[j]]) = 0
        /\ n = 1 => an = 0

\* The value v lies on the line model at x.
OnLine(v, model, x) ==
    v.num * model.coef.den * model.intercept.den
        = v.den * (model.coef.num * x * model.intercept.den
                   + model.intercept.num * model.coef.den)

ThirtyDays(fd, rows) ==
    /\ Len(fd) = 30
    /\ \A k \in 1..30 : fd[k][1] = (LastDate(rows) \div TicksPerDay) + k
    /\ \A k \in 1..29 : fd[k][1] < fd[k + 1][1]

\* C5: a forecast run yields exactly 30 points in ascending date order; the
\* k-th has the calendar date k days after the last observed date, whatever
\* gaps the history has, and the value of the least-squares line at day index
\* N + k - 1, N the number of distinct dates.
C5_ThirtyPointsOnTheLine ==
    \A t \in workers :
        /\ pc[t] \in {"pdf_open", "pdf_write"} =>
            LET rows == RequestRows(req[t])
                fd   == loc[t].forecast_data
            IN  /\ ThirtyDays(fd, rows)
                /\ LeastSquares(loc[t].model, rows)
                /\ \A k \in 1..30 :
                       OnLine(fd[k][2], loc[t].model,
                              Cardinality(HistoryDates(rows)) + k - 1)
        /\ resp[t].kind = "forecast" =>
            ThirtyDays(resp[t].forecast_data, RequestRows(req[t]))

\* C5 witness: a completed run on a history of three dates with a gap and a
\* slope that is not zero.
C5_Witness ==
    \E t \in workers :
        /\ resp[t].kind = "forecast"
        /\ Cardinality(HistoryDates(RequestRows(req[t]))) = 3
        /\ Stamp(4, 0) \in HistoryDates(RequestRows(req[t]))
        /\ resp[t].forecast_data[1][2] # resp[t].forecast_data[2][2]

GroupsAccountFor(groups, rows, col, total) ==
    /\ SeqSum([i \in DOMAIN groups |-> groups[i].sale_amount]) = total
    /\ {groups[i].key : i \in DOMAIN groups} = ColumnValues(rows, col)
    /\ \A i, j \in DOMAIN groups : groups[i].key = groups[j].key => i = j
    /\ \A i \in DOMAIN groups :
           groups[i].sale_amount = AmountWhere(rows, col, groups[i].key)

\* C7: on the dashboard of a valid dataset the per-area, per-month and
\* per-product sums each add up to total_sales; there is exactly one group
\* per value that occurs in the rows, holding the sum of the rows with that
\* value, and no group for a value that does not occur.
C7_GroupsAddUp ==
    \A t \in workers :
        resp[t].kind = "dashboard" =>
            LET rows  == req[t].file.rows
                total == resp[t].summary.total_sales
            IN  /\ total = SeqSum([i \in DOMAIN rows |-> rows[i].sale_amount])
                /\ GroupsAccountFor(resp[t].area_sales, rows, "area", total)
                /\ GroupsAccountFor(resp[t].month_sales, rows, "month", total)
                /\ GroupsAccountFor(resp[t].product_sales, rows, "product", total)

\* C7 witness: a dashboard of two rows with different amounts that share
\* their area (one group, the sum of both) and differ in month and product
\* (two groups each).
C7_Witness ==
    \E t \in workers :
        /\ resp[t].kind = "dashboard"
        /\ Len(req[t].file.rows) = 2
        /\ req[t].file.rows[1].sale_amount # req[t].file.rows[2].sale_amount
        /\ Len(resp[t].area_sales) = 1
        /\ Len(resp[t].month_sales) = 2
        /\ Len(resp[t].product_sales) = 2

\* C8: the summary that the forecast run computes from the data a dashboard
\* page handed back equals, field by field, the summary that dashboard showed.
C8_SummariesIdentical ==
    \A t \in workers :
        (pc[t] \in {"pdf_open", "pdf_write"} /\ req[t].from_page) =>
            LET table == loc[t].doc.summary_table
            IN  /\ table[1][2] = req[t].shown.total_sales
                /\ table[2][2] = req[t].shown.total_profit
                /\ table[3][2] = req[t].shown.total_units
                /\ table[4][2] = req[t].shown.total_gst

\* The daily totals of the rows are all equal to c.
ConstantHistory(rows, c) ==
    /\ rows # <<>>
    /\ \A d \in HistoryDates(rows) : AmountWhere(rows, "date", d) = c

\* The total of the first date of the rows: the constant, if there is one.
FirstTotal(rows) ==
    IF rows = <<>> THEN 0 ELSE AmountWhere(rows, "date", DateOfRank(rows, 1))

\* C9: when every daily total of the history equals one constant c, a single
\* point included, the run does not fail, the fitted slope is zero and all 30
\* forecast values equal c.
C9_ConstantHistory ==
    \A t \in workers :
        (req[t].kind = "forecast"
            /\ ConstantHistory(RequestRows(req[t]), FirstTotal(RequestRows(req[t])))) =>
            LET c == FirstTotal(RequestRows(req[t]))
            IN  /\ pc[t] = "idle" => resp[t].kind = "forecast"
                /\ pc[t] # "idle" =>
                    /\ loc[t].model.coef = [num |-> 0, den |-> 1]
                    /\ Len(loc[t].forecast_values) = 30
                    /\ \A k \in 1..30 :
                           loc[t].forecast_values[k] = [num |-> c, den |-> 1]
                /\ resp[t].kind = "forecast" =>
                    \A k \in 1..30 :
                        resp[t].forecast_data[k][2] = [num |-> c, den |-> 1]

\* C9 witness: a completed run on a single date with a total above zero.
C9_Witness ==
    \E t \in workers :
        /\ resp[t].kind = "forecast"
        /\ Cardinality(HistoryDates(RequestRows(req[t]))) = 1
        /\ ConstantHistory(RequestRows(req[t]), 2 * FracUnits)
        /\ resp[t].forecast_data[30][2] = [num |-> 2 * FracUnits, den |-> 1]

\* The charts on file.
ChartsOnFile ==
    IF chart_file.state = "complete" THEN Range(chart_file.content) ELSE {}

\* C10 as stated: every forecast segment is green exactly when its end value
\* is not below its start value, and every marker has the colour of the trend
\* at its point (the first point counting as up).
C10_SegmentsShowOwnDirection ==
    \A chart \in ChartsOnFile :
        /\ \A i \in DOMAIN chart.segments :
               (chart.segments[i].color = "green")
                   <=> RatGeq(chart.segments[i].y[2], chart.segments[i].y[1])
        /\ \A i \in DOMAIN chart.markers :
               (chart.markers[i].color = "green")
                   <=> (i = 1 \/ RatGeq(chart.markers[i].y, chart.markers[i - 1].y))

\* C10 amended: the segment from point i to point i+1 has the colour of the
\* marker of point i; the marker of the first point is green, and the marker
\* of a later point is green exactly when its value is not below the value
\* of the point before it, red otherwise.
C10_SegmentsTakeColourOfStartPoint ==
    \A chart \in ChartsOnFile :
        /\ Len(chart.markers) = 30
        /\ Len(chart.segments) = 29
        /\ \A i \in DOMAIN chart.segments :
            /\ chart.segments[i].color = chart.markers[i].color
            /\ chart.segments[i].y = <<chart.markers[i].y, chart.markers[i + 1].y>>
        /\ \A i \in DOMAIN chart.markers :
            /\ chart.markers[i].color \in {"green", "red"}
            /\ (chart.markers[i].color = "green")
                   <=> (i = 1 \/ RatGeq(chart.markers[i].y, chart.markers[i - 1].y))

\* C10 witness: a chart of a falling forecast: the first segment green though
\* it falls, the later ones red.
C10_Witness ==
    \E chart \in ChartsOnFile :
        /\ chart.segments[1].color = "green"
        /\ ~RatGeq(chart.segments[1].y[2], chart.segments[1].y[1])
        /\ chart.segments[2].color = "red"
        /\ chart.markers[30].color = "red"
====
